---- MODULE Spec2Model ----
(***************************************************************************)
(* Model of auto-swiper's main.py: the looper() session.  The state is the *)
(* module globals (counter, imgCounter, skipCounter), the files the        *)
(* session reads and writes (custom jokes file, bundled jokes file,        *)
(* log.txt), the locals of looper()/sequence() and the position of the     *)
(* single thread of control.  The screen, the input devices, the disk and  *)
(* the user's Ctrl+C are the environment: their outcomes are chosen        *)
(* nondeterministically at each step.                                      *)
(*                                                                         *)
(* Text is modelled as sequences of one-character strings, so that strip(),*)
(* startswith('#'), splitlines() and join() are computed rather than       *)
(* assumed.  Time stamps of the log records are left out.                  *)
(*                                                                         *)
(* The module also models the script part of main.py (the dispatch on the  *)
(* first command-line argument) and a run of the build tools of scripts/   *)
(* (build_manager.py and the build scripts it starts).                     *)
(***************************************************************************)
EXTENDS Integers, Sequences, FiniteSets, TLC

VARIABLES
    pc,           \* position of control in looper()
    counter,      \* global counter      (main.py:35)
    imgCounter,   \* global imgCounter   (main.py:36)
    skipCounter,  \* global skipCounter  (main.py:37)
    jokes,        \* local jokes of looper()
    msg,          \* local msg of sequence()
    exc,          \* exception propagating in looper(): "none", "KeyboardInterrupt", "Exception"
    brk,          \* the break of the except clause is pending while finally runs
    userFile,     \* ~/Documents/AutoSwiper_CustomJokes.txt
    bundledFile,  \* the bundled jokes.txt
    docsWritable, \* whether the custom jokes file can be created
    logFile,      \* log.txt, a sequence of statistics records
    outcome,      \* how the clickFromLocation call just made ended ("none" otherwise)
    typed,        \* the message typed in the current iteration (NoMsg before typing)
    \* history variables (observations of the run, never read by the program)
    iter,         \* iterations of the while loop started
    events,       \* actions of the current iteration, in order
    returned,     \* clickFromLocation calls that have returned
    issued,       \* pyautogui.click calls that were issued
    clicks,       \* pyautogui.click calls that were issued and returned normally
    logCalls,     \* logAll calls made
    startLen,     \* number of records in log.txt when the session started
    interruptedAt,\* the statement during which the last KeyboardInterrupt was raised ("none": never)
    failed,       \* an exception other than KeyboardInterrupt left a step of the loop
    argv,         \* sys.argv[1:] of the run of main.py
    \* a run of one of the build tools of scripts/
    bpc,          \* position of control in the build tool ("idle": no build tool runs)
    cli,          \* the flags of its command line
    env,          \* what the tool finds: project files, PyInstaller, the outcome of the build
    dirs,         \* which of build/ and dist/ exist
    removed,      \* history: the directories the run has removed
    child,        \* what the build script did that the tool ran
    report        \* what the tool reported, and its exit status

mainVars == << pc, counter, imgCounter, skipCounter, jokes, msg, exc, brk,
               userFile, bundledFile, docsWritable, logFile, outcome, typed,
               iter, events, returned, issued, clicks, logCalls, startLen,
               interruptedAt, failed, argv >>

buildVars == << bpc, cli, env, dirs, removed, child, report >>

vars == << mainVars, buildVars >>

----------------------------------------------------------------------------
(* Bounds of the model *)

\* failed clickFromLocation calls (file missing, template not found, click raising) per session
MaxFaults == 1
\* capacity of the disk holding log.txt, in records: a write to a full disk fails
MaxLogLen == 2

(* Program constants *)

\* while counter < 200
LoopLimit == 200

----------------------------------------------------------------------------
(* Text *)

\* the characters str.strip() removes
IsSpace(c) == c \in { " ", "\t" }

RECURSIVE LStrip(_)
LStrip(line) ==
    IF line = << >> THEN << >>
    ELSE IF IsSpace(Head(line)) THEN LStrip(Tail(line)) ELSE line

RECURSIVE RStrip(_)
RStrip(line) ==
    IF line = << >> THEN << >>
    ELSE IF IsSpace(line[Len(line)]) THEN RStrip(SubSeq(line, 1, Len(line) - 1)) ELSE line

\* str.strip()
Strip(line) == RStrip(LStrip(line))

\* str.startswith('#')
StartsWithHash(line) == line # << >> /\ Head(line) = "#"

Range(s) == { s[i] : i \in 1..Len(s) }

RECURSIVE MapStrip(_)
MapStrip(lines) ==
    IF lines = << >> THEN << >>
    ELSE << Strip(Head(lines)) >> \o MapStrip(Tail(lines))

\* a filter that lets comment lines through
IsUserJoke_KeepsComments(line) == line # << >>

\* if line.strip() and not line.strip().startswith('#'), on the stripped line
IsUserJoke(line) == line # << >> /\ ~StartsWithHash(line)
IsDefaultJoke(line) == line # << >>

\* [line.strip() for line in user_lines if line.strip() and not line.strip().startswith('#')]
UserJokes(lines) == SelectSeq(MapStrip(lines), IsUserJoke)

\* [joke.strip() for joke in default_jokes if joke.strip()]
DefaultJokes(lines) == SelectSeq(MapStrip(lines), IsDefaultJoke)

\* the position of the first line break of text, 0 if it has none
FirstBreak(text) ==
    IF \E i \in 1..Len(text) : text[i] = "\n"
    THEN CHOOSE i \in 1..Len(text) : text[i] = "\n" /\ \A j \in 1..(i - 1) : text[j] # "\n"
    ELSE 0

\* str.splitlines(): a line break ends a line, so a final break opens no new line
RECURSIVE SplitLines(_)
SplitLines(text) ==
    IF text = << >> THEN << >>
    ELSE IF FirstBreak(text) = 0 THEN << text >>
    ELSE << SubSeq(text, 1, FirstBreak(text) - 1) >>
         \o SplitLines(SubSeq(text, FirstBreak(text) + 1, Len(text)))

\* '\n'.join(lines)
RECURSIVE Join(_)
Join(lines) ==
    IF lines = << >> THEN << >>
    ELSE IF Len(lines) = 1 THEN Head(lines)
    ELSE Head(lines) \o << "\n" >> \o Join(Tail(lines))

\* a file on disk: whether it exists, and the text it holds
NoFile == [exists |-> FALSE, text |-> << >>]
File(lines) == [exists |-> TRUE, text |-> Join(lines)]

\* the template create_default_user_jokes writes (texts abbreviated to one letter)
default_custom_jokes ==
    << <<"#", " ", "t">>, <<"#", " ", "e">>, << >>,
       <<"h">>, <<"s">>, << >>, <<"#", " ", "a">> >>

\* jokes = ["Hey there!", "You seem interesting!", "Coffee sometime?"]
FallbackJokes == << <<"H">>, <<"Y">>, <<"C">> >>

\* "No jokes available"
NoJokesAvailable == <<"N", "o">>

\* the value of msg outside sequence()
NoMsg == << >>

----------------------------------------------------------------------------
(* loadJokes and create_default_user_jokes *)

\* step 1 of loadJokes: the custom jokes, when the file exists
LoadedUserJokes(user) == IF user.exists THEN UserJokes(SplitLines(user.text)) ELSE << >>

\* step 2 of loadJokes: the bundled jokes, when the file can be read
LoadedDefaultJokes(bundled) ==
    IF bundled.exists THEN DefaultJokes(SplitLines(bundled.text)) ELSE << >>

\* the custom file after create_default_user_jokes()
create_default_user_jokes(user, writable) ==
    IF ~user.exists /\ writable THEN File(default_custom_jokes) ELSE user

\* a loadJokes without step 4, the fallback
loadJokes_NoFallback(user, bundled) == LoadedUserJokes(user) \o LoadedDefaultJokes(bundled)

\* the list loadJokes returns
loadJokes(user, bundled) ==
    LET loaded == LoadedUserJokes(user) \o LoadedDefaultJokes(bundled)
    IN  IF loaded = << >> THEN FallbackJokes ELSE loaded

\* a loadJokes without step 3
UserFileAfterLoad_NoCreate(user, writable) == user

\* the custom file when loadJokes returns (step 3: created if no custom joke was loaded)
UserFileAfterLoad(user, writable) ==
    IF LoadedUserJokes(user) # << >> THEN user
    ELSE create_default_user_jokes(user, writable)

\* a randomPunGenerator that always returns the first joke
randomPunGenerator_First(js) == IF js # << >> THEN { js[1] } ELSE { NoJokesAvailable }

\* the values random.choice(jokes) can return, or the placeholder for an empty list
randomPunGenerator(js) == IF js # << >> THEN Range(js) ELSE { NoJokesAvailable }

----------------------------------------------------------------------------
(* sequence(): the order of its statements *)

\* a sequence() without its third click attempt
sequenceOrder_NoLike ==
    << "defaultLoc", "heart", "wait1", "comment", "wait2",
       "choose", "type", "wait3", "wait4" >>

\* a sequence() that types the message before it opens the comment box
sequenceOrder_TypeFirst ==
    << "defaultLoc", "heart", "wait1", "choose", "type", "wait2",
       "comment", "wait3", "like", "wait4" >>

sequenceOrder ==
    << "defaultLoc", "heart", "wait1", "comment", "wait2",
       "choose", "type", "wait3", "like", "wait4" >>

IndexOf(p) == CHOOSE i \in 1..Len(sequenceOrder) : sequenceOrder[i] = p

\* the statement after p; after the last one sequence() returns into looper()
After(p) ==
    IF IndexOf(p) < Len(sequenceOrder) THEN sequenceOrder[IndexOf(p) + 1] ELSE "progress"

ClickPcs == { "heart", "comment", "like" }
WaitPcs == { "wait1", "wait2", "wait3", "wait4" }

----------------------------------------------------------------------------
(* Initial state: the module has been imported, looper() is about to run *)

OldRecord == [skipped |-> 1, completed |-> 2, total |-> 3]

\* the files a session finds: custom jokes, bundled jokes, Documents folder, log.txt
InitFiles ==
    { [user |-> NoFile, bundled |-> File(<< <<"a">>, <<" ", "b">> >>), writable |-> TRUE,
       log |-> << >>],
      [user |-> File(<< <<"#", "c">>, <<" ", "u", " ">>, << >> >>),
       bundled |-> File(<< <<"a">> >>), writable |-> TRUE, log |-> << OldRecord >>],
      [user |-> NoFile, bundled |-> NoFile, writable |-> FALSE, log |-> << >>] }

\* no build script has run, nothing was reported
NoChild ==
    [ script |-> "none", exit |-> 0, dirs |-> { }, removed |-> { }, built |-> FALSE,
      failed |-> FALSE, analyzed |-> FALSE, console |-> "none", upx |-> "none" ]

NoReport == [ exited |-> FALSE, status |-> 0, completed |-> FALSE ]

\* no build tool runs
BuildIdle ==
    /\ bpc = "idle"
    /\ cli = [ tool |-> "none" ]
    /\ env = [ files |-> TRUE, pyinstaller |-> TRUE, builds |-> TRUE ]
    /\ dirs = { }
    /\ removed = { }
    /\ child = NoChild
    /\ report = NoReport

\* the module globals as main.py sets them, and a session found in files
Imported(files) ==
    /\ counter = 0
    /\ imgCounter = 0
    /\ skipCounter = 0
    /\ jokes = << >>
    /\ msg = NoMsg
    /\ exc = "none"
    /\ brk = FALSE
    /\ \E f \in files :
         /\ userFile = f.user
         /\ bundledFile = f.bundled
         /\ docsWritable = f.writable
         /\ logFile = f.log
    /\ outcome = "none"
    /\ typed = NoMsg
    /\ iter = 0
    /\ events = << >>
    /\ returned = 0
    /\ issued = 0
    /\ clicks = 0
    /\ logCalls = 0
    /\ startLen = Len(logFile)
    /\ interruptedAt = "none"
    /\ failed = FALSE

\* main.py was started without an argument and has called looper()
Init ==
    /\ pc = "start"
    /\ argv = << >>
    /\ Imported(InitFiles)
    /\ BuildIdle

----------------------------------------------------------------------------
(* Raising out of a statement of the try body of looper()'s loop *)

\* a loop whose logAll() is not in a finally clause: an exception that is
\* not caught leaves looper() at once
RaisePc_NoFinally(e) == IF e = "KeyboardInterrupt" THEN "except" ELSE "crashed"

\* except KeyboardInterrupt catches the interrupt; anything else goes through
\* finally and on out of looper()
RaisePc(e) == IF e = "KeyboardInterrupt" THEN "except" ELSE "finally"

Raise(e) ==
    /\ pc' = RaisePc(e)
    /\ exc' = e
    /\ interruptedAt' = IF e = "KeyboardInterrupt" THEN pc ELSE interruptedAt
    /\ failed' = (failed \/ e = "Exception")

NoRaise == UNCHANGED << exc, interruptedAt, failed >>

\* the environment may still produce a recoverable fault
FaultAllowed == skipCounter < MaxFaults

----------------------------------------------------------------------------
(* looper(): start of the session *)

\* display_startup_banner(); jokes = loadJokes('jokes.txt')
Start ==
    /\ pc = "start"
    /\ jokes' = loadJokes(userFile, bundledFile)
    /\ userFile' = UserFileAfterLoad(userFile, docsWritable)
    /\ pc' = "test"
    /\ UNCHANGED << counter, imgCounter, skipCounter, msg, exc, brk, bundledFile,
                    docsWritable, logFile, outcome, typed, iter, events, returned,
                    issued, clicks, logCalls, startLen, argv, buildVars, interruptedAt, failed >>

\* a loop condition that is off by one
ContinueLoop_OffByOne == counter <= LoopLimit

\* while counter < 200
ContinueLoop == counter < LoopLimit

LoopTest ==
    /\ pc = "test"
    /\ IF ContinueLoop
       THEN /\ pc' = "incr"
            /\ iter' = iter + 1
            /\ events' = << >>
            /\ typed' = NoMsg
       ELSE /\ pc' = "summary"
            /\ UNCHANGED << iter, events, typed >>
    /\ UNCHANGED << counter, imgCounter, skipCounter, jokes, msg, exc, brk, userFile,
                    bundledFile, docsWritable, logFile, outcome, returned, issued, clicks,
                    logCalls, startLen, argv, buildVars, interruptedAt, failed >>

\* counter += 1, and the "Like #n" lines
Incr ==
    /\ pc = "incr"
    /\ counter' = counter + 1
    /\ pc' = sequenceOrder[1]
    /\ UNCHANGED << imgCounter, skipCounter, jokes, msg, exc, brk, userFile,
                    bundledFile, docsWritable, logFile, outcome, typed, iter, events,
                    returned, issued, clicks, logCalls, startLen, argv, buildVars, interruptedAt, failed >>

----------------------------------------------------------------------------
(* sequence(jokes) *)

\* defaultLoc(): pyautogui.moveTo(100, 150); the move can raise (the fail-safe)
defaultLoc(ok) ==
    /\ pc = "defaultLoc"
    /\ IF ok
       THEN /\ pc' = After(pc)
            /\ events' = Append(events, "move")
            /\ NoRaise
            /\ UNCHANGED msg
       ELSE /\ Raise("Exception")
            /\ msg' = NoMsg
            /\ UNCHANGED events
    /\ UNCHANGED << counter, imgCounter, skipCounter, jokes, brk, userFile,
                    bundledFile, docsWritable, logFile, outcome, typed, iter,
                    returned, issued, clicks, logCalls, startLen, argv, buildVars >>

(* clickFromLocation(ImagePath).  How a call can end:
     "missing"        os.path.exists(ImagePath) is false
     "notfound"       locateCenterOnScreen finds no match (it raises, or returns
                      None and the unpacking raises)
     "clickfail"      the match succeeds and pyautogui.click raises
     "ok"             the match succeeds and the click returns
     "interrupt_late" Ctrl+C after the click returned, before imgCounter += 1
   (Ctrl+C before the click is the action Interrupt below.)                  *)
ClickOutcomes == { "missing", "notfound", "clickfail", "ok", "interrupt_late" }

\* the outcomes that need a fault of the environment
ClickFaults == { "missing", "notfound", "clickfail" }

\* a clickFromLocation whose missing-file branch forgets skipCounter += 1
SkipDelta_MissingNotCounted(o) == IF o \in { "notfound", "clickfail" } THEN 1 ELSE 0

\* skipCounter += 1 (lines 113 and 125)
SkipDelta(o) == IF o \in { "missing", "notfound", "clickfail" } THEN 1 ELSE 0

\* imgCounter += 1 (line 120)
ImgDelta(o) == IF o = "ok" THEN 1 ELSE 0

\* pyautogui.click(x, y) was called (line 118)
IssueDelta(o) == IF o \in { "clickfail", "ok", "interrupt_late" } THEN 1 ELSE 0

\* pyautogui.click(x, y) was called and returned (line 118)
ClickDelta(o) == IF o \in { "ok", "interrupt_late" } THEN 1 ELSE 0

\* a clickFromLocation without its try/except: a failed search leaves the call
ClickRaises_Uncaught(o) ==
    IF o = "interrupt_late" THEN "KeyboardInterrupt"
    ELSE IF o = "notfound" THEN "Exception" ELSE "none"

\* the exception that leaves clickFromLocation: except Exception does not
\* catch KeyboardInterrupt
ClickRaises(o) == IF o = "interrupt_late" THEN "KeyboardInterrupt" ELSE "none"

\* a sequence() that repeats a clickFromLocation call whose search failed
AfterClick_Retry(p, o) == IF o \in ClickFaults THEN p ELSE After(p)

\* the statement after a clickFromLocation call that returned: there is no
\* loop around the search or around the call, whatever the outcome
AfterClick(p, o) == After(p)

ClickEvent(p) ==
    CASE p = "heart" -> "click heart"
      [] p = "comment" -> "click comment"
      [] p = "like" -> "click like"

clickFromLocation(ImagePath, o) ==
    /\ pc = ImagePath
    /\ pc \in ClickPcs
    /\ o \in ClickFaults => FaultAllowed
    /\ skipCounter' = skipCounter + SkipDelta(o)
    /\ imgCounter' = imgCounter + ImgDelta(o)
    /\ issued' = issued + IssueDelta(o)
    /\ clicks' = clicks + ClickDelta(o)
    /\ events' = Append(events, ClickEvent(ImagePath))
    /\ outcome' = o
    /\ IF ClickRaises(o) = "none"
       THEN /\ pc' = AfterClick(pc, o)
            /\ returned' = returned + 1
            /\ NoRaise
            /\ UNCHANGED msg
       ELSE /\ Raise(ClickRaises(o))
            /\ msg' = NoMsg
            /\ UNCHANGED returned
    /\ UNCHANGED << counter, jokes, brk, userFile, bundledFile, docsWritable,
                    logFile, typed, iter, logCalls, startLen, argv, buildVars >>

\* wait(defaultWaitTimeSecs); after the last one sequence() returns
wait ==
    /\ pc \in WaitPcs
    /\ pc' = After(pc)
    /\ events' = Append(events, "wait")
    /\ outcome' = "none"
    /\ msg' = IF After(pc) = "progress" THEN NoMsg ELSE msg
    /\ UNCHANGED << counter, imgCounter, skipCounter, jokes, exc, brk, userFile,
                    bundledFile, docsWritable, logFile, typed, iter, returned,
                    issued, clicks, logCalls, startLen, argv, buildVars, interruptedAt, failed >>

\* msg = randomPunGenerator(jokes), and the panel showing it
ChooseMsg(m) ==
    /\ pc = "choose"
    /\ m \in randomPunGenerator(jokes)
    /\ msg' = m
    /\ pc' = After(pc)
    /\ UNCHANGED << counter, imgCounter, skipCounter, jokes, exc, brk, userFile,
                    bundledFile, docsWritable, logFile, outcome, typed, iter, events,
                    returned, issued, clicks, logCalls, startLen, argv, buildVars, interruptedAt, failed >>

\* random.choice picks any element
Choose == \E m \in randomPunGenerator(jokes) : ChooseMsg(m)

\* typeMessage(msg): pyautogui.typewrite can raise (the fail-safe)
typeMessage(ok) ==
    /\ pc = "type"
    /\ IF ok
       THEN /\ pc' = After(pc)
            /\ typed' = msg
            /\ events' = Append(events, "type")
            /\ NoRaise
            /\ UNCHANGED msg
       ELSE /\ Raise("Exception")
            /\ msg' = NoMsg
            /\ UNCHANGED << typed, events >>
    /\ UNCHANGED << counter, imgCounter, skipCounter, jokes, brk, userFile,
                    bundledFile, docsWritable, logFile, outcome, iter,
                    returned, issued, clicks, logCalls, startLen, argv, buildVars >>

----------------------------------------------------------------------------
(* looper(): the rest of the loop body *)

\* overall_progress.update(main_task, advance=1) and the spacing lines
Progress ==
    /\ pc = "progress"
    /\ pc' = "finally"
    /\ UNCHANGED << counter, imgCounter, skipCounter, jokes, msg, exc, brk, userFile,
                    bundledFile, docsWritable, logFile, outcome, typed, iter, events,
                    returned, issued, clicks, logCalls, startLen, argv, buildVars, interruptedAt, failed >>

\* the statements of the try body
TryPcs == { "incr", "progress" } \cup Range(sequenceOrder)

\* Ctrl+C while a statement of the try body runs, before it has had an effect
Interrupt ==
    /\ pc \in TryPcs
    /\ Raise("KeyboardInterrupt")
    /\ msg' = NoMsg
    /\ UNCHANGED << counter, imgCounter, skipCounter, jokes, brk, userFile,
                    bundledFile, docsWritable, logFile, outcome, typed, iter, events,
                    returned, issued, clicks, logCalls, startLen, argv, buildVars >>

\* Ctrl+C while the loop condition is evaluated: no try statement is active
InterruptAtLoopTest ==
    /\ pc = "test"
    /\ pc' = "crashed"
    /\ exc' = "KeyboardInterrupt"
    /\ interruptedAt' = pc
    /\ UNCHANGED << counter, imgCounter, skipCounter, jokes, msg, brk, userFile,
                    bundledFile, docsWritable, logFile, outcome, typed, iter, events,
                    returned, issued, clicks, logCalls, startLen, argv, buildVars, failed >>

\* except KeyboardInterrupt: print, break
Except ==
    /\ pc = "except"
    /\ exc' = "none"
    /\ brk' = TRUE
    /\ pc' = "finally"
    /\ UNCHANGED << counter, imgCounter, skipCounter, jokes, msg, userFile,
                    bundledFile, docsWritable, logFile, outcome, typed, iter, events,
                    returned, issued, clicks, logCalls, startLen, argv, buildVars, interruptedAt, failed >>

\* the record logAll formats (lines 298-304)
LogRecord(skip, img) == [skipped |-> skip, completed |-> img, total |-> img + skip]

\* a logAll that opens log.txt with mode "w"
WriteLog_Truncating(file, rec) == << rec >>

\* open("log.txt", "a") ... logFile.write(log)
WriteLog(file, rec) == Append(file, rec)

\* a loop that is left after its first iteration
FinallyExit_AlwaysLeaves(e, b) == IF e # "none" THEN "crashed" ELSE "summary"

\* where control goes when the finally clause is done: a pending exception
\* goes on out of looper(), a pending break leaves the loop
FinallyExit(e, b) == IF e # "none" THEN "crashed" ELSE IF b THEN "summary" ELSE "test"

(* finally: logAll().  The call can end:
     "ok"        the record is appended
     "fail"      open or write raises (the disk is full); except Exception
                 prints the error
     "interrupt" Ctrl+C inside logAll, which except Exception does not catch *)
LogOutcomes == { "ok", "fail", "interrupt" }

DiskFull == Len(logFile) >= MaxLogLen

logAll(o) ==
    /\ pc = "finally"
    /\ o \in LogOutcomes
    /\ o = "ok" => ~DiskFull
    /\ o = "fail" => DiskFull
    /\ logCalls' = logCalls + 1
    /\ logFile' = IF o = "ok" THEN WriteLog(logFile, LogRecord(skipCounter, imgCounter))
                  ELSE logFile
    /\ exc' = IF o = "interrupt" THEN "KeyboardInterrupt" ELSE exc
    /\ interruptedAt' = IF o = "interrupt" THEN pc ELSE interruptedAt
    /\ pc' = FinallyExit(exc', brk)
    /\ UNCHANGED << counter, imgCounter, skipCounter, jokes, msg, brk, userFile,
                    bundledFile, docsWritable, outcome, typed, iter, events,
                    returned, issued, clicks, startLen, argv, buildVars, failed >>

\* the final summary panel; looper() returns
Summary ==
    /\ pc = "summary"
    /\ pc' = "done"
    /\ UNCHANGED << counter, imgCounter, skipCounter, jokes, msg, exc, brk, userFile,
                    bundledFile, docsWritable, logFile, outcome, typed, iter, events,
                    returned, issued, clicks, logCalls, startLen, argv, buildVars, interruptedAt, failed >>

----------------------------------------------------------------------------

Next ==
    \/ Start
    \/ LoopTest
    \/ Incr
    \/ \E ok \in BOOLEAN : defaultLoc(ok)
    \/ \E p \in ClickPcs, o \in ClickOutcomes : clickFromLocation(p, o)
    \/ wait
    \/ Choose
    \/ \E ok \in BOOLEAN : typeMessage(ok)
    \/ Progress
    \/ Interrupt
    \/ InterruptAtLoopTest
    \/ Except
    \/ \E o \in LogOutcomes : logAll(o)
    \/ Summary

Spec == Init /\ [][Next]_vars

\* the interpreter keeps executing the script: a step that can be taken is taken
FairSpec == Spec /\ WF_vars(Next)

----------------------------------------------------------------------------
(* main.py run as a script: the dispatch on the first argument *)

\* longest command line considered, in arguments
MaxArgs == 2

ArgWords ==
    { "--demo", "--DEMO", "--jokes", "--edit", "--customize",
      "--help", "--Help", "-h", "help", "--run", "start" }

\* the command lines: sys.argv[1:]
Argv == UNION { [1..n -> ArgWords] : n \in 0..MaxArgs }

\* str.lower(), on the words above
Lower(w) ==
    CASE w = "--DEMO" -> "--demo"
      [] w = "--Help" -> "--help"
      [] OTHER -> w

\* a script that starts the automation on an argument it does not know
MainBranch_UnknownRuns(av) ==
    IF Len(av) > 0
    THEN IF Lower(av[1]) = "--demo" THEN "demo"
         ELSE IF Lower(av[1]) \in { "--jokes", "--edit", "--customize" } THEN "editjokes"
         ELSE IF Lower(av[1]) \in { "--help", "-h", "help" } THEN "help"
         ELSE "start"
    ELSE "start"

\* where the script goes: looper() ("start") only when there is no argument;
\* an unknown argument prints a notice and goes to show_help()
MainBranch(av) ==
    IF Len(av) > 0
    THEN IF Lower(av[1]) = "--demo" THEN "demo"
         ELSE IF Lower(av[1]) \in { "--jokes", "--edit", "--customize" } THEN "editjokes"
         ELSE IF Lower(av[1]) \in { "--help", "-h", "help" } THEN "help"
         ELSE "help"
    ELSE "start"

\* if __name__ == "__main__"
Main ==
    /\ pc = "main"
    /\ pc' = MainBranch(argv)
    /\ UNCHANGED << counter, imgCounter, skipCounter, jokes, msg, exc, brk, userFile,
                    bundledFile, docsWritable, logFile, outcome, typed, iter, events,
                    returned, issued, clicks, logCalls, startLen, argv, buildVars,
                    interruptedAt, failed >>

\* demo_rich_features(): the banner, wait(3) and panels
demo_rich_features ==
    /\ pc = "demo"
    /\ events' = Append(events, "wait")
    /\ pc' = "exit"
    /\ UNCHANGED << counter, imgCounter, skipCounter, jokes, msg, exc, brk, userFile,
                    bundledFile, docsWritable, logFile, outcome, typed, iter,
                    returned, issued, clicks, logCalls, startLen, argv, buildVars,
                    interruptedAt, failed >>

\* --jokes: create_default_user_jokes(); open_jokes_folder()
EditJokes ==
    /\ pc = "editjokes"
    /\ userFile' = create_default_user_jokes(userFile, docsWritable)
    /\ pc' = "exit"
    /\ UNCHANGED << counter, imgCounter, skipCounter, jokes, msg, exc, brk,
                    bundledFile, docsWritable, logFile, outcome, typed, iter, events,
                    returned, issued, clicks, logCalls, startLen, argv, buildVars,
                    interruptedAt, failed >>

\* show_help(): prints the help panel
show_help ==
    /\ pc = "help"
    /\ pc' = "exit"
    /\ UNCHANGED << counter, imgCounter, skipCounter, jokes, msg, exc, brk, userFile,
                    bundledFile, docsWritable, logFile, outcome, typed, iter, events,
                    returned, issued, clicks, logCalls, startLen, argv, buildVars,
                    interruptedAt, failed >>

\* main.py is about to run its script part, with any command line
InitMain ==
    /\ pc = "main"
    /\ argv \in Argv
    /\ Imported(InitFiles)
    /\ BuildIdle

NextMain ==
    \/ Main
    \/ demo_rich_features
    \/ EditJokes
    \/ show_help
    \/ Next

SpecMain == InitMain /\ [][NextMain]_vars

----------------------------------------------------------------------------
(* loadJokes on any small custom jokes file *)

\* longest custom jokes file considered, in characters
MaxTextLen == 4

Chars == { " ", "\t", "#", "a", "\n" }

Texts == UNION { [1..n -> Chars] : n \in 0..MaxTextLen }

\* the sessions: the custom file is absent or holds any text, the bundled
\* file is absent or holds a line starting with # and a joke
JokesFiles ==
    { [user |-> u, bundled |-> b, writable |-> w, log |-> << >>] :
        u \in { NoFile } \cup { [exists |-> TRUE, text |-> t] : t \in Texts },
        b \in { NoFile, File(<< <<"#", "b">>, <<"b">> >>) },
        w \in BOOLEAN }

\* looper() is about to call loadJokes
InitJokes ==
    /\ pc = "start"
    /\ argv = << >>
    /\ Imported(JokesFiles)
    /\ BuildIdle

NextJokes == Start

SpecJokes == InitJokes /\ [][NextJokes]_vars

----------------------------------------------------------------------------
(* The build tools of scripts/.  A run is either build_manager.py with its
   flags, which starts one of the build scripts as a child process, or
   build_01_quick.py started by hand.  A child process is atomic for the
   manager: a script is an operator from its arguments, the environment and
   the directories present to what it did and its exit status. *)

\* BuildType (build_manager.py)
BuildTypes == { "quick", "optimized", "cross", "analysis" }

\* build_dirs of the build scripts, and the directories maint_cleanup.py removes
BuildDirs == { "build", "dist" }

\* the command lines of build_manager.py
ManagerClis ==
    [ tool : { "manager" }, build_type : BuildTypes, no_clean : BOOLEAN,
      console : BOOLEAN, no_upx : BOOLEAN, clean : BOOLEAN, status : BOOLEAN,
      no_console : { FALSE }, spec : { FALSE } ]

\* the command lines of build_01_quick.py
QuickClis ==
    [ tool : { "quick" }, build_type : { "quick" }, no_clean : { FALSE },
      console : BOOLEAN, no_upx : { FALSE }, clean : { FALSE }, status : { FALSE },
      no_console : BOOLEAN, spec : BOOLEAN ]

\* what a run finds: the project files, PyInstaller, and whether a build succeeds
Envs == [ files : BOOLEAN, pyinstaller : BOOLEAN, builds : BOOLEAN ]

\* what a script did: the directories it left and removed, whether PyInstaller
\* built the executable, whether its build step failed, whether it analysed
\* the dependencies, the console option and the upx setting it gave PyInstaller
Ran(script, exit, ds, rm, built, bfailed, analyzed, console, upx) ==
    [ script |-> script, exit |-> exit, dirs |-> ds, removed |-> rm, built |-> built,
      failed |-> bfailed, analyzed |-> analyzed, console |-> console, upx |-> upx ]

\* a script that did nothing but print
Printed(script, exit, ds) == Ran(script, exit, ds, { }, FALSE, FALSE, FALSE, "none", "none")

\* the pyinstaller command: fails when PyInstaller is missing or the build breaks
PyInstallerOk(e) == e.pyinstaller /\ e.builds

\* build_01_quick.py: console_mode = args.console or not args.no_console;
\* if args.no_console: console_mode = False
quick_console_mode(console, no_console) ==
    IF no_console THEN FALSE ELSE (console \/ ~no_console)

\* create_build: cmd.append('--console') or cmd.append('--noconsole')
ConsoleOption(console_mode) == IF console_mode THEN "--console" ELSE "--noconsole"

\* build_01_quick.py: main() and create_build(); exit status 0 if main() else 1
build_01_quick(a, e, ds) ==
    IF a.spec THEN Printed("build_01_quick.py", 0, ds)
    ELSE IF ~e.files
    THEN Ran("build_01_quick.py", 1, ds, { }, FALSE, TRUE, FALSE, "none", "none")
    ELSE Ran("build_01_quick.py", IF PyInstallerOk(e) THEN 0 ELSE 1,
             IF PyInstallerOk(e) THEN BuildDirs ELSE { }, ds \cap BuildDirs,
             PyInstallerOk(e), ~PyInstallerOk(e), FALSE,
             ConsoleOption(quick_console_mode(a.console, a.no_console)), "default")

\* build_02_optimized.py: main() dispatches on sys.argv[1]; --build writes the
\* spec with upx=True and calls build_optimized(), whose result it drops; the
\* script ends with a bare main(), so its exit status is 0 unless PyInstaller
\* is missing (FileNotFoundError is not caught)
build_02_optimized(action, e, ds) ==
    IF action = "--analyze"
    THEN Ran("build_02_optimized.py", 0, ds, { }, FALSE, FALSE, TRUE, "none", "none")
    ELSE IF action = "--build"
    THEN Ran("build_02_optimized.py", IF e.pyinstaller THEN 0 ELSE 1,
             IF PyInstallerOk(e) THEN BuildDirs ELSE { }, ds \cap BuildDirs,
             PyInstallerOk(e), ~PyInstallerOk(e), FALSE, "--noconsole", "on")
    ELSE Printed("build_02_optimized.py", 0, ds)

\* build_03_cross_platform.py: main() returns None when files are missing and
\* after create_platform_executable(), whatever it returned
build_03_cross_platform(e, ds) ==
    IF ~e.files
    THEN Ran("build_03_cross_platform.py", 0, ds, { }, FALSE, TRUE, FALSE, "none", "none")
    ELSE Ran("build_03_cross_platform.py", IF e.pyinstaller THEN 0 ELSE 1,
             IF PyInstallerOk(e) THEN ds \cup BuildDirs ELSE ds, { },
             PyInstallerOk(e), ~PyInstallerOk(e), FALSE, "--noconsole", "default")

\* maint_cleanup.py: clean_build_artifacts() removes build/ and dist/
maint_cleanup(e, ds) ==
    IF ~e.files THEN Printed("maint_cleanup.py", 0, ds)
    ELSE Ran("maint_cleanup.py", 0, ds \ BuildDirs, ds \cap BuildDirs,
             FALSE, FALSE, FALSE, "none", "none")

\* run_build_script: False exactly when the child exits with a non-zero status
run_build_script(result) == result.exit = 0

\* quick_build, optimized_build, cross_platform_build, analyze_build: the
\* script, and the arguments, the manager's configuration leads to
quick_build(config, e, ds) ==
    build_01_quick([spec |-> FALSE, console |-> FALSE, no_console |-> ~config.console], e, ds)

optimized_build(config, e, ds) == build_02_optimized("--build", e, ds)

cross_platform_build(config, e, ds) == build_03_cross_platform(e, ds)

analyze_build(config, e, ds) == build_02_optimized("--analyze-only", e, ds)

\* build_functions[config.build_type](config)
build_functions(config, e, ds) ==
    CASE config.build_type = "quick" -> quick_build(config, e, ds)
      [] config.build_type = "optimized" -> optimized_build(config, e, ds)
      [] config.build_type = "cross" -> cross_platform_build(config, e, ds)
      [] config.build_type = "analysis" -> analyze_build(config, e, ds)

\* sys.exit(0 if success else 1)
ExitStatus(success) == IF success THEN 0 ELSE 1

Exited(success, completed) ==
    [ exited |-> TRUE, status |-> ExitStatus(success), completed |-> completed ]

\* the child's effect on the directories
ChildRuns(result) ==
    /\ child' = result
    /\ dirs' = result.dirs
    /\ removed' = removed \cup result.removed

\* build_manager.py main(): the utility commands come first
ManagerMain ==
    /\ bpc = "manager"
    /\ bpc' = IF cli.clean THEN "cleanonly" ELSE IF cli.status THEN "status" ELSE "prereq"
    /\ UNCHANGED << mainVars, cli, env, dirs, removed, child, report >>

\* if args.clean: return run_build_script("maint_cleanup.py")
CleanOnly ==
    /\ bpc = "cleanonly"
    /\ ChildRuns(maint_cleanup(env, dirs))
    /\ report' = Exited(run_build_script(maint_cleanup(env, dirs)), FALSE)
    /\ bpc' = "exit"
    /\ UNCHANGED << mainVars, cli, env >>

\* if args.status: show_build_status(); return True
show_build_status ==
    /\ bpc = "status"
    /\ report' = Exited(TRUE, FALSE)
    /\ bpc' = "exit"
    /\ UNCHANGED << mainVars, cli, env, dirs, removed, child >>

\* if not check_prerequisites(): return False
check_prerequisites ==
    /\ bpc = "prereq"
    /\ IF env.files /\ env.pyinstaller
       THEN bpc' = "clean" /\ UNCHANGED report
       ELSE bpc' = "exit" /\ report' = Exited(FALSE, FALSE)
    /\ UNCHANGED << mainVars, cli, env, dirs, removed, child >>

\* if config.clean_first: run_build_script("maint_cleanup.py")
CleanFirst ==
    /\ bpc = "clean"
    /\ IF ~cli.no_clean
       THEN ChildRuns(maint_cleanup(env, dirs))
       ELSE UNCHANGED << child, dirs, removed >>
    /\ bpc' = "build"
    /\ UNCHANGED << mainVars, cli, env, report >>

\* success = build_functions[config.build_type](config)
BuildStep ==
    /\ bpc = "build"
    /\ ChildRuns(build_functions(cli, env, dirs))
    /\ bpc' = "report"
    /\ UNCHANGED << mainVars, cli, env, report >>

\* "Build completed successfully!" or "Build failed"; then sys.exit
ReportStep ==
    /\ bpc = "report"
    /\ report' = Exited(run_build_script(child), run_build_script(child))
    /\ bpc' = "exit"
    /\ UNCHANGED << mainVars, cli, env, dirs, removed, child >>

\* python scripts/build_01_quick.py with its own flags
QuickScript ==
    /\ bpc = "quick"
    /\ ChildRuns(build_01_quick(cli, env, dirs))
    /\ report' = Exited(build_01_quick(cli, env, dirs).exit = 0, FALSE)
    /\ bpc' = "exit"
    /\ UNCHANGED << mainVars, cli, env >>

\* a build tool is about to run, main.py is not running
InitBuild ==
    /\ pc = "idle"
    /\ argv = << >>
    /\ Imported({ [user |-> NoFile, bundled |-> NoFile, writable |-> FALSE, log |-> << >>] })
    /\ cli \in ManagerClis \cup QuickClis
    /\ bpc = cli.tool
    /\ env \in Envs
    /\ dirs \in SUBSET BuildDirs
    /\ removed = { }
    /\ child = NoChild
    /\ report = NoReport

NextBuild ==
    \/ ManagerMain
    \/ CleanOnly
    \/ show_build_status
    \/ check_prerequisites
    \/ CleanFirst
    \/ BuildStep
    \/ ReportStep
    \/ QuickScript

SpecBuild == InitBuild /\ [][NextBuild]_vars

----------------------------------------------------------------------------
(* Claims *)

IsPrefix(a, b) == Len(a) <= Len(b) /\ a = SubSeq(b, 1, Len(a))

NotMove(e) == e # "move"

\* the actions of the current iteration that are click attempts, waits or typing
ListedActions == SelectSeq(events, NotMove)

ExpectedOrder ==
    << "click heart", "wait", "click comment", "wait", "type", "wait", "click like", "wait" >>

\* sequence() has returned into looper()
SequenceReturned == pc = "progress"

(* C1: the actions of an iteration occur in the order click heart, wait, click
   comment, wait, type, wait, click like, wait: what has happened so far in an
   iteration is always a prefix of that order, it is the whole order when
   sequence() returns, and an iteration starts only when the one before it has
   gone through the whole order, its last wait included. *)
C1_ActionOrder ==
    /\ [](IsPrefix(ListedActions, ExpectedOrder))
    /\ [](SequenceReturned => ListedActions = ExpectedOrder)
    /\ [][iter' # iter => (iter = 0 \/ ListedActions = ExpectedOrder)]_vars

\* the second iteration has gone through all its actions
C1_Witness == SequenceReturned /\ iter = 2 /\ ListedActions = ExpectedOrder

(* C2: when clickFromLocation does not find its template on screen, the
   failure is caught inside the call: skipCounter goes up by exactly 1,
   imgCounter is unchanged, no click is issued, and control goes on to the
   statement after the call with no exception propagating. *)
C2_NotFoundIsSkipped ==
    [][(pc \in ClickPcs /\ outcome' = "notfound") =>
          /\ skipCounter' = skipCounter + 1
          /\ imgCounter' = imgCounter
          /\ issued' = issued
          /\ pc' = After(pc)
          /\ exc' = "none"]_vars

\* a search has just failed and sequence() is at the wait that follows it
C2_Witness == outcome = "notfound" /\ pc \in WaitPcs /\ skipCounter = 1

\* the statements of an iteration: the try body and the logging in finally
IterationPcs == TryPcs \cup { "finally" }

LoopEnded_Pcs == { "summary", "done", "crashed" }

\* looper() has left the while loop
LoopEnded == pc \in LoopEnded_Pcs

(* C3: a keyboard interrupt raised during any step of an iteration, the
   statistics logging included, stops the loop and looper goes on to the
   final summary: looper is never left by the interrupt.  Stated for the
   first interrupt of a session in which no other exception was raised. *)
C3_InterruptReachesSummary ==
    (interruptedAt \in IterationPcs /\ ~failed /\ ~brk) => pc # "crashed"

(* C4: the loop ends before its 200th iteration only because of a keyboard
   interrupt. *)
C4_OnlyInterruptEndsLoopEarly ==
    (LoopEnded /\ iter < LoopLimit) => interruptedAt # "none"

(* C5: if no keyboard interrupt occurs and every step returns, looper
   terminates after exactly 200 iterations, with counter = 200 and the final
   summary printed. *)
C5_Terminates ==
    <>(\/ interruptedAt # "none"
       \/ failed
       \/ (pc = "done" /\ iter = LoopLimit /\ counter = LoopLimit))

\* a session that ran to its end undisturbed
C5_Witness ==
    pc = "done" /\ interruptedAt = "none" /\ ~failed /\ iter = LoopLimit /\ counter = LoopLimit

\* the records this session has added to log.txt
SessionRecords == SubSeq(logFile, startLen + 1, Len(logFile))

RecordSums(r) == r.total = r.completed + r.skipped

(* C6: every clickFromLocation call that returns increases exactly one of
   imgCounter and skipCounter, by exactly 1; imgCounter + skipCounter is always
   the number of calls that have returned; and in every record logAll writes,
   Total = Completed + Skipped. *)
C6_CountersSum ==
    /\ [](imgCounter + skipCounter = returned)
    /\ [](\A i \in 1..Len(SessionRecords) : RecordSums(SessionRecords[i]))
    /\ [][returned' # returned =>
            /\ returned' = returned + 1
            /\ \/ (imgCounter' = imgCounter + 1 /\ skipCounter' = skipCounter)
               \/ (imgCounter' = imgCounter /\ skipCounter' = skipCounter + 1)]_vars
    /\ [][(imgCounter' # imgCounter \/ skipCounter' # skipCounter) =>
            returned' = returned + 1]_vars

\* hits and misses have both been counted and logged
C6_Witness ==
    /\ imgCounter > 0 /\ skipCounter > 0
    /\ Len(SessionRecords) > 0
    /\ SessionRecords[Len(SessionRecords)].total = 3
    /\ SessionRecords[Len(SessionRecords)].skipped = 1

(* C7: counter, imgCounter and skipCounter are non-negative integers, none
   of them ever decreases, and 0 <= counter <= 200. *)
C7_CountersInRange ==
    /\ [](counter \in 0..LoopLimit /\ imgCounter \in Nat /\ skipCounter \in Nat)
    /\ [][counter' >= counter /\ imgCounter' >= imgCounter /\ skipCounter' >= skipCounter]_vars

\* the loop has run out with hits and misses counted
C7_Witness == counter = LoopLimit /\ imgCounter > 0 /\ skipCounter > 0 /\ pc = "done"

(* C8: a session adds exactly one statistics record to log.txt, after the
   loop has ended: never more than one, none while the loop goes on, and one
   when looper is done. *)
C8_OneRecordPerSession ==
    /\ Len(logFile) <= startLen + 1
    /\ Len(logFile) > startLen => LoopEnded
    /\ pc = "done" => Len(logFile) = startLen + 1

(* C9: log.txt is append-only: every step leaves the file unchanged or
   appends one record to its end, only a logAll call changes it, and the
   records already in the file stay as they are, in place. *)
C9_AppendOnly ==
    [][/\ IsPrefix(logFile, logFile')
       /\ Len(logFile') <= Len(logFile) + 1
       /\ logFile' # logFile => logCalls' = logCalls + 1]_vars

\* a record of an earlier session is still first in the file after an append
C9_Witness == startLen = 1 /\ Len(logFile) = 2 /\ logFile[1] = OldRecord /\ logCalls = 2

(* C10: the message typed in an iteration is an element of the list loadJokes
   returned at the start of the session, every element of the list can be
   chosen in every iteration, and the list does not change after it was
   loaded. *)
C10_MessageFromList ==
    /\ [](typed # NoMsg => typed \in Range(jokes))
    /\ [](pc = "choose" => \A m \in Range(jokes) : ENABLED ChooseMsg(m))
    /\ [](pc = "choose" => jokes # << >>)
    /\ [][pc # "start" => jokes' = jokes]_vars

\* in the second iteration an element other than the first was typed
C10_Witness == iter = 2 /\ typed \in Range(jokes) /\ typed # jokes[1]

IsClick(e) == e \in { "click heart", "click comment", "click like" }

\* the clickFromLocation calls of the current iteration, in order
ClickCalls == SelectSeq(events, IsClick)

\* how often landmark e was searched for in the current iteration
Searches(e) == Cardinality({ i \in 1..Len(events) : events[i] = e })

(* C11: there is no retry: within one iteration each of the three landmarks
   is searched for at most once, and the iteration makes at most three
   clickFromLocation calls. *)
C11_NoRetry ==
    /\ \A e \in { "click heart", "click comment", "click like" } : Searches(e) <= 1
    /\ Len(ClickCalls) <= 3

\* an iteration in which one call was skipped has made its three calls, one per landmark
C11_Witness ==
    /\ SequenceReturned /\ skipCounter = 1 /\ imgCounter = 2 /\ iter = 1
    /\ ClickCalls = << "click heart", "click comment", "click like" >>

\* pyautogui calls that move the mouse, click or type
IsInputEvent(e) == e \in { "move", "type", "click heart", "click comment", "click like" }

\* the statements of looper()
LooperPcs == IterationPcs \cup { "start", "test", "except", "summary", "done", "crashed" }

(* C12: the automation runs only when the program is started with no
   argument: with a first argument, whatever it is, looper is never called,
   no mouse or keyboard event is issued, counter, imgCounter and skipCounter
   stay 0, and log.txt is not written. *)
C12_ArgumentNeverAutomates ==
    Len(argv) > 0 =>
        /\ pc \notin LooperPcs
        /\ iter = 0
        /\ \A i \in 1..Len(events) : ~IsInputEvent(events[i])
        /\ issued = 0
        /\ typed = NoMsg
        /\ counter = 0 /\ imgCounter = 0 /\ skipCounter = 0
        /\ logCalls = 0
        /\ Len(logFile) = startLen

\* the script has ended on an argument it does not recognise, and on --demo
C12_Witness ==
    /\ pc = "exit"
    /\ \/ argv = << "--run" >>
       \/ (argv = << "--DEMO", "start" >> /\ events = << "wait" >>)

WhitespaceOnly(line) == \A i \in 1..Len(line) : IsSpace(line[i])

\* the first character of line that is not whitespace is #
CommentLine(line) ==
    \E i \in 1..Len(line) : line[i] = "#" /\ \A j \in 1..(i - 1) : IsSpace(line[j])

Counts(line) == ~WhitespaceOnly(line) /\ ~CommentLine(line)

\* s is line without the whitespace around it
IsStrippedOf(s, line) ==
    \E i, j \in 1..Len(line) :
        /\ i <= j
        /\ s = SubSeq(line, i, j)
        /\ ~IsSpace(line[i]) /\ ~IsSpace(line[j])
        /\ \A k \in 1..Len(line) : (k < i \/ k > j) => IsSpace(line[k])

\* the lines of the custom jokes file that are neither comments nor blank
CountingLines(user) ==
    IF user.exists THEN SelectSeq(SplitLines(user.text), Counts) ELSE << >>

\* what loadJokes returns apart from the custom jokes
OtherJokes(user, bundled) ==
    IF CountingLines(user) = << >> THEN loadJokes(NoFile, bundled)
    ELSE LoadedDefaultJokes(bundled)

(* C13: lines of the custom jokes file that start with # after stripping, and
   lines that are empty or whitespace-only, are ignored, and every other
   line is in the list, stripped: the list loadJokes returns is the other
   lines of the file, each stripped, in order, followed by what loadJokes
   returns apart from the custom file. *)
C13_CommentsAndBlanksIgnored ==
    [][pc = "start" =>
         LET kept == CountingLines(userFile)
         IN  /\ Len(jokes') >= Len(kept)
             /\ \A i \in 1..Len(kept) : IsStrippedOf(jokes'[i], kept[i])
             /\ SubSeq(jokes', Len(kept) + 1, Len(jokes')) = OtherJokes(userFile, bundledFile)
      ]_vars

\* a file with an indented comment line and a joke has been loaded
C13_Witness ==
    /\ pc = "test"
    /\ userFile.exists /\ userFile.text = << " ", "#", "\n", "a" >>
    /\ jokes[1] = << "a" >> /\ << "#" >> \notin Range(jokes)

(* C14: if the custom jokes file does not exist when loadJokes is called and
   its folder is writable, then when loadJokes returns the file exists and
   holds the default template. *)
C14_CustomFileCreated ==
    [][(pc = "start" /\ ~userFile.exists /\ docsWritable) =>
         /\ userFile'.exists
         /\ userFile'.text = Join(default_custom_jokes)
         /\ SplitLines(userFile'.text) = default_custom_jokes]_vars

\* loadJokes has returned and the custom file holds the template
C14_Witness ==
    /\ pc = "test" /\ docsWritable
    /\ userFile.exists /\ SplitLines(userFile.text) = default_custom_jokes

(* C20: a skipped landmark does not abort the rest of its iteration: after a
   click attempt that was skipped the iteration goes on with its next step,
   and a message is typed in every iteration that no keyboard interrupt cut
   short, whatever the outcome of the clicks before it.  Stated for the
   sessions without a keyboard interrupt, when the steps of the iteration
   are over. *)
C20_MessageTypedUnlessInterrupted ==
    /\ (outcome \in ClickFaults /\ interruptedAt = "none") => pc \in WaitPcs
    /\ (pc = "finally" /\ interruptedAt = "none") => "type" \in Range(events)

\* the manager has run a build of one of the three kinds and has exited
BuildRunEnded ==
    /\ bpc = "exit" /\ cli.tool = "manager"
    /\ child.script \in { "build_01_quick.py", "build_02_optimized.py",
                          "build_03_cross_platform.py" }
    /\ cli.build_type \in { "quick", "optimized", "cross" }

(* C15: the build manager reports 'Build completed successfully' and exits
   with status 0 only if the build step of the script it ran succeeded: for
   the build types quick, optimized and cross, whenever the PyInstaller build
   fails or the script finds required files missing, the manager does not
   report success and exits with status 1. *)
C15_SuccessOnlyIfBuilt ==
    BuildRunEnded =>
        /\ child.failed => (~report.completed /\ report.status = 1)
        /\ (report.completed \/ report.status = 0) => child.built

(* C16: a run of the build manager with build type analysis makes
   build_02_optimized.py call analyze_dependencies and build nothing. *)
C16_AnalysisAnalyzes ==
    (bpc = "exit" /\ cli.tool = "manager" /\ cli.build_type = "analysis"
       /\ child.script = "build_02_optimized.py") =>
        (child.analyzed /\ ~child.built)

(* C17: in a run of the build manager with --no-clean (and without the
   utility commands --clean and --status) no build/ or dist/ directory is
   removed, whatever the build type. *)
C17_NoCleanRemovesNothing ==
    (cli.tool = "manager" /\ cli.no_clean /\ ~cli.clean /\ ~cli.status) => removed = { }

(* C18: build_01_quick.py hides the console window by default: run with
   neither --console nor --no-console it gives PyInstaller --noconsole, and
   it gives --console only when --console is given without --no-console. *)
C18_QuickHidesConsoleByDefault ==
    (cli.tool = "quick" /\ child.console # "none") =>
        (child.console = "--console" <=> (cli.console /\ ~cli.no_console))

(* C19: a build started through the build manager with --no-upx never
   produces or uses a PyInstaller configuration with upx enabled. *)
C19_NoUpxDisablesUpx ==
    (cli.tool = "manager" /\ cli.no_upx) => child.upx # "on"

\* the iteration last started has run all its steps and no exception is pending,
\* or no iteration has started yet
IterationCompleted ==
    \/ pc \in { "progress", "test" }
    \/ (pc = "finally" /\ exc = "none" /\ ~brk)
    \/ (pc \in { "summary", "done" } /\ ~brk)

(* C21: the attempts counter and the hit/miss counters stay in step: always
   3 * (counter - 1) <= imgCounter + skipCounter <= 3 * counter, and after
   every iteration that completes without interrupt
   imgCounter + skipCounter = 3 * counter. *)
C21_CountersInStep ==
    /\ 3 * (counter - 1) <= imgCounter + skipCounter
    /\ imgCounter + skipCounter <= 3 * counter
    /\ IterationCompleted => imgCounter + skipCounter = 3 * counter

\* two iterations have completed, with hits and a miss
C21_Witness ==
    /\ pc = "test" /\ iter = 2 /\ counter = 2
    /\ imgCounter = 5 /\ skipCounter = 1

\* logAll has been called once for every iteration started but the current
\* one, and for that one too as soon as its steps are over
LogCallsFollowIterations ==
    /\ pc \in TryPcs \cup { "except", "finally" } => logCalls = iter - 1
    /\ pc \in { "start", "test" } \cup LoopEnded_Pcs => logCalls = iter

(* C22: logAll is called exactly once for every iteration the loop starts,
   after that iteration's steps and before the next iteration begins, the
   iteration cut short by a keyboard interrupt included; so when the loop
   has ended the number of logAll calls equals counter. *)
C22_LogCallsEqualCounter ==
    /\ LogCallsFollowIterations
    /\ LoopEnded => logCalls = counter

(* C22, amended: logAll is called exactly once for every iteration the loop
   starts, after that iteration's steps and before the next iteration
   begins; when the loop has ended the number of logAll calls is the number
   of iterations started, which is counter, or counter + 1 when a keyboard
   interrupt cut the last iteration short before counter += 1 took effect. *)
C22_LogCallsPerIteration ==
    /\ LogCallsFollowIterations
    /\ LoopEnded =>
          \/ logCalls = counter
          \/ (logCalls = counter + 1 /\ brk)

\* the loop has ended on an interrupt that came before counter += 1: the
\* iteration was logged and not counted
C22_Witness ==
    /\ pc = "summary" /\ interruptedAt = "incr"
    /\ iter = 2 /\ counter = 1 /\ logCalls = 2

(* C23: a click is issued only after a successful template match made in the
   same clickFromLocation call, and imgCounter is increased only after that
   click has been issued: at every moment imgCounter equals the number of
   clicks that were issued and returned normally, and a call whose match
   succeeds but whose click raises is counted in skipCounter, not
   imgCounter. *)
C23_ImgCounterCountsClicks ==
    /\ [](imgCounter = clicks)
    /\ [][(pc \in ClickPcs /\ outcome' \in { "missing", "notfound" }) =>
            issued' = issued]_vars
    /\ [][imgCounter' # imgCounter =>
            (imgCounter' = imgCounter + 1 /\ issued' = issued + 1)]_vars
    /\ [][(pc \in ClickPcs /\ outcome' = "clickfail") =>
            (skipCounter' = skipCounter + 1 /\ imgCounter' = imgCounter)]_vars

====
